---- MODULE Spec2Model ----
(***************************************************************************)
(* Model of insteon_mqtt/Modem.py: the modem's device registry, its mirror *)
(* of the modem link database, the two-step link add/delete protocol, the  *)
(* refresh fan-out and the run_command facade.                             *)
(*                                                                         *)
(* Collaborators whose code is not part of Modem.py (Address, CommandSeq,  *)
(* db.Modem, the handlers, the protocol's write queue, the remote devices) *)
(* are modelled from the specification's description of them.              *)
(***************************************************************************)
EXTENDS Integers, Sequences, FiniteSets, TLC

(***************************************************************************)
(* Strings are sequences of one-character strings, so that str.lower() and *)
(* str.strip() are computed, not assumed.                                  *)
(***************************************************************************)
UpperChars == <<"A","B","C","D","E","F","G","H","I","J","K","L","M",
                "N","O","P","Q","R","S","T","U","V","W","X","Y","Z">>

LowerChars == <<"a","b","c","d","e","f","g","h","i","j","k","l","m",
                "n","o","p","q","r","s","t","u","v","w","x","y","z">>

HexChars == <<"0","1","2","3","4","5","6","7","8","9","a","b","c","d","e","f">>

IndexOf(seq, c) ==
  IF \E i \in DOMAIN seq : seq[i] = c
  THEN CHOOSE i \in DOMAIN seq : seq[i] = c
  ELSE 0

\* str.lower() on one character.
LowerChar(c) ==
  IF IndexOf(UpperChars, c) = 0 THEN c ELSE LowerChars[IndexOf(UpperChars, c)]

\* str.lower()
Lower(s) == [i \in DOMAIN s |-> LowerChar(s[i])]

RECURSIVE LStrip(_)
LStrip(s) == IF s # <<>> /\ Head(s) = " " THEN LStrip(Tail(s)) ELSE s

RECURSIVE RStrip(_)
RStrip(s) ==
  IF s # <<>> /\ s[Len(s)] = " " THEN RStrip(SubSeq(s, 1, Len(s) - 1)) ELSE s

\* str.strip()
Strip(s) == RStrip(LStrip(s))

S_modem == <<"m","o","d","e","m">>
S_Modem == <<"M","o","d","e","m">>
S_MODEM == <<"M","O","D","E","M">>
S_lamp  == <<"l","a","m","p">>
S_Lamp  == <<"L","a","m","p">>
S_a1    == <<"a","1">>
S_A1    == <<"A","1">>
S_b2    == <<"b","2">>
S_B2    == <<"B","2">>
S_c3    == <<"c","3">>

(***************************************************************************)
(* Address.  An address string is scaled down from three hex bytes to one: *)
(* exactly two hex digits, in either case.  The id is the numeric value.   *)
(***************************************************************************)
IsHexChar(c) == IndexOf(HexChars, LowerChar(c)) # 0

HexVal(c) == IndexOf(HexChars, LowerChar(c)) - 1

\* Whether Address(s) succeeds (it raises otherwise).
AddressOk(s) == Len(s) = 2 /\ \A i \in DOMAIN s : IsHexChar(s[i])

\* Address(s).id
AddressId(s) == 16 * HexVal(s[1]) + HexVal(s[2])

\* self.addr (set by load_config from data['address']).
ModemAddr == AddressId(S_a1)

(***************************************************************************)
(* Devices.  A device object has an address and an optional friendly name  *)
(* (the empty string when it has none).                                    *)
(***************************************************************************)
Device(a, n) == [addr |-> a, name |-> n]

DevLamp   == Device(AddressId(S_b2), S_lamp)
DevFan    == Device(AddressId(S_c3), <<>>)
\* A friendly name with an upper-case letter.
DevLampUp == Device(AddressId(S_b2), S_Lamp)
\* A friendly name that reads as the modem's address.
DevAlias  == Device(AddressId(S_c3), S_a1)
\* Another device with the friendly name of DevLamp.
DevTwin   == Device(AddressId(S_c3), S_lamp)
\* A device configured with the modem's own address.
DevClash  == Device(ModemAddr, S_modem)

\* The devices the main specification is configured with.
CfgDevs == {DevLamp, DevFan}

\* The devices the registry specification registers and removes.
RegDevs == {DevLamp, DevFan, DevLampUp, DevAlias, DevTwin, DevClash}

AllDevs == CfgDevs \cup RegDevs

NoDev == Device(0 - 1, <<>>)

\* What find returns: the modem, a device or None.
FoundModem  == [t |-> "modem", d |-> NoDev]
FoundDev(d) == [t |-> "dev", d |-> d]
FoundNone   == [t |-> "none", d |-> NoDev]

VARIABLES
  devices,       \* self.devices, a dict in insertion order: a sequence of devices, one per id
  device_names,  \* self.device_names: a function from names to devices
  db,            \* self.db: the mirror, a sequence of link records
  hw,            \* the link table in the modem's hardware
  hwPos,         \* the hardware's read cursor (get-first / get-next)
  devdb,         \* each device's link records
  queue,         \* the protocol's write queue; its head is the message in flight
  ops,           \* one record per API call made, with what its callback was told
  last           \* the API call made last and whether it raised

regVars == <<devices, device_names>>
dbVars  == <<db, hw, hwPos, devdb>>
vars    == <<devices, device_names, db, hw, hwPos, devdb, queue, ops, last>>

(***************************************************************************)
(* Registry: add, remove, find.                                            *)
(***************************************************************************)
DevIndex(devs, id) ==
  IF \E i \in DOMAIN devs : devs[i].addr = id
  THEN CHOOSE i \in DOMAIN devs : devs[i].addr = id
  ELSE 0

RemoveAt(seq, i) == SubSeq(seq, 1, i - 1) \o SubSeq(seq, i + 1, Len(seq))

\* self.devices[device.addr.id] = device
DevicesPut(devs, d) ==
  IF DevIndex(devs, d.addr) = 0
  THEN Append(devs, d)
  ELSE [devs EXCEPT ![DevIndex(devs, d.addr)] = d]

\* self.devices.pop(device.addr.id, None)
DevicesPop(devs, d) ==
  IF DevIndex(devs, d.addr) = 0 THEN devs ELSE RemoveAt(devs, DevIndex(devs, d.addr))

\* self.device_names[device.name] = device, when the name is not empty
NamesPut(names, d) ==
  IF d.name # <<>>
  THEN [n \in (DOMAIN names) \cup {d.name} |-> IF n = d.name THEN d ELSE names[n]]
  ELSE names

\* self.device_names.pop(device.name, None), when the name is not empty
NamesPop(names, d) ==
  IF d.name # <<>>
  THEN [n \in (DOMAIN names) \ {d.name} |-> names[n]]
  ELSE names

NoNames == [n \in {} |-> NoDev]

\* Modem.add
Add(d) ==
  /\ devices' = DevicesPut(devices, d)
  /\ device_names' = NamesPut(device_names, d)
  /\ last' = [api |-> "add", raised |-> FALSE]
  /\ UNCHANGED <<dbVars, queue, ops>>

\* Modem.remove
Remove(d) ==
  /\ devices' = DevicesPop(devices, d)
  /\ device_names' = NamesPop(device_names, d)
  /\ last' = [api |-> "remove", raised |-> FALSE]
  /\ UNCHANGED <<dbVars, queue, ops>>

\* Modem.find from line 268 on: the token is an Address by now.
FindId(devs, id) ==
  IF id = ModemAddr THEN FoundModem
  ELSE IF DevIndex(devs, id) = 0 THEN FoundNone
       ELSE FoundDev(devs[DevIndex(devs, id)])

\* What find would give if the exception of Address() were not caught.
FoundRaise == [t |-> "raise", d |-> NoDev]

\* Mutant: Address(addr) outside the try.
FindInUncaught(devs, names, tok) ==
  LET addr == Lower(tok) IN
  IF addr = S_modem THEN FoundModem
  ELSE IF addr \in DOMAIN names THEN FoundDev(names[addr])
  ELSE IF ~AddressOk(addr) THEN FoundRaise
  ELSE FindId(devs, AddressId(addr))

\* Modem.find of a string token.
FindIn(devs, names, tok) ==
  LET addr == Lower(tok) IN
  IF addr = S_modem THEN FoundModem
  ELSE IF addr \in DOMAIN names THEN FoundDev(names[addr])
  ELSE IF ~AddressOk(addr) THEN FoundNone
  ELSE FindId(devs, AddressId(addr))

Find(tok) == FindIn(devices, device_names, tok)

\* The tokens find is called with: the sentinel, friendly names, addresses in
\* either case, an address no device has, and strings that are none of these.
S_LAMP == <<"L","A","M","P">>
S_d4 == <<"d","4">>
S_zz == <<"z","z">>

FindTokens == {S_modem, S_Modem, S_lamp, S_Lamp, S_LAMP, S_a1, S_A1, S_b2, S_B2, S_c3,
               S_d4, S_zz, <<>>}

\* Modem.find as a call: it assigns nothing, its result is kept with the call.
find(tok) ==
  /\ last' = [api |-> "find", raised |-> Find(tok).t = "raise", tok |-> tok,
              result |-> Find(tok)]
  /\ UNCHANGED <<devices, device_names, dbVars, queue, ops>>

\* The registry as one value, and add and remove as functions of it.
Registry == [devices |-> devices, device_names |-> device_names]

Added(reg, d) ==
  [devices |-> DevicesPut(reg.devices, d), device_names |-> NamesPut(reg.device_names, d)]

Removed(reg, d) ==
  [devices |-> DevicesPop(reg.devices, d), device_names |-> NamesPop(reg.device_names, d)]

FindReg(reg, tok) == FindIn(reg.devices, reg.device_names, tok)

\* Modem._load_devices: clear both maps, then add every configured device.
RECURSIVE LoadDevices(_, _)
LoadDevices(cfg, reg) ==
  IF cfg = <<>> THEN reg
  ELSE LoadDevices(Tail(cfg),
                   [devices |-> DevicesPut(reg.devices, Head(cfg)),
                    device_names |-> NamesPut(reg.device_names, Head(cfg))])

EmptyRegistry == [devices |-> <<>>, device_names |-> NoNames]

\* The device lists a configuration may give: no device, one or two.
Configs == {<<>>, <<DevLamp>>, <<DevLamp, DevFan>>}

(***************************************************************************)
(* Link records and the mirror (db.Modem): an ordered collection with at   *)
(* most one record per (address, group, role).                             *)
(***************************************************************************)
\* How many API calls one behaviour makes.
MaxOps == 2

\* How many link calls (add or delete) may be in progress at once.
MaxLinks == 1

Groups == {1}

\* The data argument: None (the empty sequence) or three explicit bytes.
NoData == <<>>
Datas == {NoData, <<1, 2, 3>>}

\* db.ModemEntry's address: an Address, or the token as it was given when it names
\* nothing and is no address either.
KeyOfId(id) == [id |-> id, raw |-> <<>>]

KeyOfToken(tok) ==
  IF AddressOk(tok) THEN KeyOfId(AddressId(tok)) ELSE [id |-> 0 - 1, raw |-> tok]

Entry(addr, group, is_controller, data) ==
  [addr |-> addr, group |-> group, ctrl |-> is_controller, data |-> data]

NoEntry == Entry(KeyOfId(0 - 1), 0, FALSE, NoData)

SameLink(e, addr, group, is_controller) ==
  e.addr = addr /\ e.group = group /\ e.ctrl = is_controller

\* The place of the record of (addr, group, is_controller) in m, 0 when there is none
DbFind(m, addr, group, is_controller) ==
  IF \E i \in DOMAIN m : SameLink(m[i], addr, group, is_controller)
  THEN CHOOSE i \in DOMAIN m : SameLink(m[i], addr, group, is_controller)
  ELSE 0

\* db.find(addr, group, is_controller): the record, NoEntry (None) when there is none
MirrorFind(m, addr, group, is_controller) ==
  IF DbFind(m, addr, group, is_controller) = 0
  THEN NoEntry
  ELSE m[DbFind(m, addr, group, is_controller)]

\* db.add_entry: a record with the same identity is replaced in place
DbAddEntry(m, e) ==
  IF DbFind(m, e.addr, e.group, e.ctrl) = 0
  THEN Append(m, e)
  ELSE [m EXCEPT ![DbFind(m, e.addr, e.group, e.ctrl)] = e]

\* db.delete_entry
DbDeleteEntry(m, e) ==
  IF DbFind(m, e.addr, e.group, e.ctrl) = 0
  THEN m
  ELSE RemoveAt(m, DbFind(m, e.addr, e.group, e.ctrl))

\* Modem.link_data
link_data(group, is_controller) ==
  IF is_controller THEN <<group, 0, 0>> ELSE <<group, 0, 0>>

\* The payload a device chooses when it is given none.
DevLinkData(group, is_controller) == <<group, 0, 0>>

(***************************************************************************)
(* API calls.  Every call appends a record to ops: what was asked, what    *)
(* the call resolved, and what its completion callback has been told.      *)
(***************************************************************************)
NewOp(kind, cb) ==
  [kind |-> kind, cb |-> cb, fired |-> 0, succ |-> FALSE, msg |-> "", ent |-> NoEntry,
   tw |-> FALSE, remote |-> FoundNone, addr |-> KeyOfId(0 - 1), group |-> 0,
   ctrl |-> FALSE, data |-> NoData, steps |-> 0, nested |-> 0, acks |-> 0, naks |-> 0, log |-> <<>>]

\* A message of the write queue with its handler's state.
Message(typ, op, cb, dev, ent, cont) ==
  [typ |-> typ, op |-> op, cb |-> cb, dev |-> dev, ent |-> ent, cont |-> cont]

\* protocol.send(msg, msg_handler)
Send(st, m) == [st EXCEPT !.queue = Append(@, m)]

\* The caller's on_done (util.make_callback: a missing callback is a no-op).
Fire(st, op, cb, success, msg, ent) ==
  IF cb
  THEN [st EXCEPT !.ops[op].fired = IF @ < 2 THEN @ + 1 ELSE @,
                  !.ops[op].succ = success,
                  !.ops[op].msg = msg,
                  !.ops[op].ent = ent]
  ELSE st

\* A step that failed is counted on the call's record.
StepFailed(st, op) == [st EXCEPT !.ops[op].naks = @ + 1]

\* A step a CommandSeq holds.
Step(f, remote, ent, group, is_controller) ==
  [f |-> f, remote |-> remote, ent |-> ent, group |-> group, ctrl |-> is_controller]

\* A CommandSeq: the calls left and the message of its success.
CommandSeq(calls, msg) == [calls |-> calls, msg |-> msg]

(***************************************************************************)
(* CommandSeq.on_done, the steps it runs and the two link operations.  st  *)
(* is the part of the state a completion may change: [queue, ops].  m is   *)
(* the mirror and dd the devices' records as they are at that moment.  A   *)
(* continuation is the stack of CommandSeqs a completion goes through      *)
(* before it reaches the caller's on_done.                                 *)
(***************************************************************************)
\* Mutant: two_way is handed on to the remote as it was given.
PeerTwoWayKept(two_way) == two_way

\* "two_way = False" before the step on the remote is added (lines 603 and 650): the
\* two_way the remote's operation is called with.
PeerTwoWay(two_way) == FALSE

RECURSIVE Deliver(_, _, _, _, _, _, _, _, _)
RECURSIVE RunStep(_, _, _, _, _, _, _)
RECURSIVE DbUpdateRun(_, _, _, _, _, _, _, _, _, _, _, _)
RECURSIVE DbDeleteRun(_, _, _, _, _, _, _, _, _, _, _)

\* CommandSeq.on_done(success, msg, data), at the top of the continuation cont;
\* with no CommandSeq left it is the caller's on_done.
Deliver(st, m, dd, op, cb, cont, success, msg, ent) ==
  IF cont = <<>> THEN Fire(st, op, cb, success, msg, ent)
  ELSE IF ~success THEN Deliver(st, m, dd, op, cb, Tail(cont), FALSE, msg, ent)
  ELSE IF Head(cont).calls = <<>>
       THEN Deliver(st, m, dd, op, cb, Tail(cont), TRUE, Head(cont).msg, ent)
  ELSE RunStep(st, m, dd, op, cb, Head(Head(cont).calls),
               <<[Head(cont) EXCEPT !.calls = Tail(@)]>> \o Tail(cont))

\* Entry.run: the call a step holds, with the CommandSeq's on_done as its on_done.
RunStep(st, m, dd, op, cb, step, cont) ==
  CASE step.f = "modem_add" ->
         \* db.add_on_device(protocol, entry, on_done)
         Send(st, Message("modem_add", op, cb, NoDev, step.ent, cont))
    [] step.f = "modem_del" ->
         \* db.delete_on_device(protocol, entry, on_done)
         Send(st, Message("modem_del", op, cb, NoDev, step.ent, cont))
    [] step.f = "remote_add" /\ step.remote.t = "dev" ->
         \* remote.db_add_*_of(self.addr, group, None, two_way, refresh, on_done); the
         \* step exists only for a call whose two_way was True
         Send(st, Message(IF PeerTwoWay(TRUE) THEN "dev_add_2w" ELSE "dev_add",
                          op, cb, step.remote.d,
                          Entry(KeyOfId(ModemAddr), step.group, step.ctrl,
                                DevLinkData(step.group, step.ctrl)), cont))
    [] step.f = "remote_add" /\ step.remote.t = "modem" ->
         \* the remote is this modem: self.db_add_*_of(self.addr, ...)
         DbUpdateRun(st, m, dd, op, cb, cont, FoundModem, KeyOfId(ModemAddr),
                     step.group, NoData, PeerTwoWay(TRUE), step.ctrl)
    [] step.f = "remote_del" /\ step.remote.t = "dev" ->
         \* remote.db_del_*_of(self.addr, group, False, refresh, on_done)
         IF MirrorFind(dd[step.remote.d], KeyOfId(ModemAddr), step.group, step.ctrl)
              = NoEntry
         THEN Deliver(StepFailed(st, op), m, dd, op, cb, cont, FALSE,
                      "Entry doesn't exist", NoEntry)
         ELSE Send(st, Message(IF PeerTwoWay(TRUE) THEN "dev_del_2w" ELSE "dev_del",
                               op, cb, step.remote.d,
                               Entry(KeyOfId(ModemAddr), step.group, step.ctrl, NoData),
                               cont))
    [] step.f = "remote_del" /\ step.remote.t = "modem" ->
         DbDeleteRun(st, m, dd, op, cb, cont, FoundModem, KeyOfId(ModemAddr),
                     step.group, step.ctrl, PeerTwoWay(TRUE))

\* Mutant: the remote gets the same role as the modem.
AddPeerRoleSame(is_controller) == is_controller

\* The role of the operation issued on the remote for an add in role is_controller.
AddPeerRole(is_controller) == ~is_controller

\* The role of the operation issued on the remote for a delete in role is_controller.
DelPeerRole(is_controller) == ~is_controller

\* Mutant: the step on the remote is added before the write on the modem.
UpdateCallsPeerFirst(remote, entry, group, two_way, is_controller) ==
  (IF two_way /\ remote.t # "none"
   THEN <<Step("remote_add", remote, NoEntry, group, ~is_controller)>>
   ELSE <<>>)
  \o <<Step("modem_add", FoundNone, entry, group, is_controller)>>

\* Mutant: the step on the remote is never added.
UpdateCallsOneWay(remote, entry, group, two_way, is_controller) ==
  <<Step("modem_add", FoundNone, entry, group, is_controller)>>

\* The steps of _db_update, in the order they are added.
UpdateCalls(remote, entry, group, two_way, is_controller) ==
  <<Step("modem_add", FoundNone, entry, group, is_controller)>>
  \o (IF two_way /\ remote.t # "none"
      THEN <<Step("remote_add", remote, NoEntry, group, AddPeerRole(is_controller))>>
      ELSE <<>>)

\* Mutant: the delete on the remote is added before the delete on the modem.
DeleteCallsPeerFirst(remote, entry, group, two_way, is_controller) ==
  (IF two_way /\ remote.t # "none"
   THEN <<Step("remote_del", remote, NoEntry, group, ~is_controller)>>
   ELSE <<>>)
  \o <<Step("modem_del", FoundNone, entry, group, is_controller)>>

\* The steps of _db_delete, in the order they are added.
DeleteCalls(remote, entry, group, two_way, is_controller) ==
  <<Step("modem_del", FoundNone, entry, group, is_controller)>>
  \o (IF two_way /\ remote.t # "none"
      THEN <<Step("remote_del", remote, NoEntry, group, DelPeerRole(is_controller))>>
      ELSE <<>>)

\* The steps a call adds are counted on its record: those of the call itself
\* (steps) and those of a call it causes on the modem (nested).
CountSteps(st, op, cont, n) ==
  IF cont = <<>>
  THEN [st EXCEPT !.ops[op].steps = @ + n]
  ELSE [st EXCEPT !.ops[op].nested = @ + n]

\* Mutant: the data given is ignored, the payload is always the default one.
DbUpdateRunDefaultData(st, m, dd, op, cb, cont, remote, addr, group, data, two_way, is_controller) ==
  LET bytes == link_data(group, is_controller)
      entry == Entry(addr, group, is_controller, bytes)
      calls == UpdateCalls(remote, entry, group, two_way, is_controller)
  IN Deliver(CountSteps(st, op, cont, Len(calls)), m, dd, op, cb,
             <<CommandSeq(calls, "Device db update complete")>> \o cont,
             TRUE, "", NoEntry)

\* Modem._db_update from line 585 on; remote and addr are what find gave.
DbUpdateRun(st, m, dd, op, cb, cont, remote, addr, group, data, two_way, is_controller) ==
  LET bytes == IF data = NoData THEN link_data(group, is_controller) ELSE data
      entry == Entry(addr, group, is_controller, bytes)
      calls == UpdateCalls(remote, entry, group, two_way, is_controller)
  IN Deliver(CountSteps(st, op, cont, Len(calls)), m, dd, op, cb,
             <<CommandSeq(calls, "Device db update complete")>> \o cont,
             TRUE, "", NoEntry)

\* Mutant: the delete goes on whether or not the record was found.
NotFoundNever(entry) == FALSE

\* Mutant: the test is the wrong way round for a record that was found.
NotFoundAlways(entry) == TRUE

\* "if not entry:" at line 636, for the entry db.find returned
NotFound(entry) == entry = NoEntry

\* Modem._db_delete from line 634 on.  The call is only made with an on_done that
\* can be called: see DbDelete for the one that cannot.
DbDeleteRun(st, m, dd, op, cb, cont, remote, addr, group, is_controller, two_way) ==
  LET entry == MirrorFind(m, addr, group, is_controller)
      calls == DeleteCalls(remote, entry, group, two_way, is_controller)
  IN IF NotFound(entry)
     THEN Deliver(IF cont = <<>> THEN st ELSE StepFailed(st, op), m, dd, op, cb, cont,
                  FALSE, "Entry doesn't exist", NoEntry)
     ELSE Deliver(CountSteps(st, op, cont, Len(calls)), m, dd, op, cb,
                  <<CommandSeq(calls, "Delete complete")>> \o cont,
                  TRUE, "", NoEntry)

(***************************************************************************)
(* The API calls as functions of the state.  A call yields the mirror, the *)
(* write queue and the call records it leaves, and whether it raised.      *)
(***************************************************************************)
\* A call whose messages have all been answered.
Finished(i) == \A k \in DOMAIN queue : queue[k].op # i

\* The record of a finished call is cleared when the next call is made: behaviours
\* then differ by what is pending, not by what was asked long ago.
Forgotten == NewOp("forgotten", FALSE)

Tracked == [i \in DOMAIN ops |-> IF Finished(i) THEN Forgotten ELSE ops[i]]

Returned(m, st) == [db |-> m, queue |-> st.queue, ops |-> st.ops, raised |-> FALSE]

Raised(m, st) == [db |-> m, queue |-> st.queue, ops |-> st.ops, raised |-> TRUE]

\* addr after "remote = self.find(addr); if remote: addr = remote.addr"
ResolvedAddr(remote, tok) ==
  CASE remote.t = "modem" -> KeyOfId(ModemAddr)
    [] remote.t = "dev" -> KeyOfId(remote.d.addr)
    [] OTHER -> KeyOfToken(tok)

LinkOp(kind, tok, group, data, two_way, is_controller, cb) ==
  [NewOp(kind, cb) EXCEPT !.tw = two_way, !.remote = Find(tok),
                          !.addr = ResolvedAddr(Find(tok), tok), !.group = group,
                          !.ctrl = is_controller, !.data = data]

\* Mutant: "if two_way:" without "and remote": the step on a remote that was not
\* found cannot be added, the call raises before anything is run.
DbUpdateUnguarded(tok, group, data, two_way, is_controller, cb) ==
  LET remote == Find(tok)
      addr == ResolvedAddr(remote, tok)
      op == Len(ops) + 1
      st == [queue |-> queue,
             ops |-> Append(Tracked, LinkOp("add", tok, group, data, two_way, is_controller, cb))]
  IN IF two_way /\ remote.t = "none"
     THEN Raised(db, st)
     ELSE Returned(db, DbUpdateRun(st, db, devdb, op, cb, <<>>, remote, addr, group, data,
                                   two_way, is_controller))

\* Mutant: the record is put in the mirror by the call, before the modem answers.
DbUpdateEager(tok, group, data, two_way, is_controller, cb) ==
  LET remote == Find(tok)
      addr == ResolvedAddr(remote, tok)
      op == Len(ops) + 1
      st == [queue |-> queue,
             ops |-> Append(Tracked, LinkOp("add", tok, group, data, two_way, is_controller, cb))]
      entry == Entry(addr, group, is_controller,
                     IF data = NoData THEN link_data(group, is_controller) ELSE data)
  IN Returned(DbAddEntry(db, entry),
              DbUpdateRun(st, db, devdb, op, cb, <<>>, remote, addr, group, data,
                          two_way, is_controller))

\* Modem._db_update
DbUpdate(tok, group, data, two_way, is_controller, cb) ==
  LET remote == Find(tok)
      addr == ResolvedAddr(remote, tok)
      op == Len(ops) + 1
      st == [queue |-> queue,
             ops |-> Append(Tracked, LinkOp("add", tok, group, data, two_way, is_controller, cb))]
  IN Returned(db, DbUpdateRun(st, db, devdb, op, cb, <<>>, remote, addr, group, data,
                              two_way, is_controller))

\* Mutant: "if two_way:" without "and remote": the step on a remote that was not
\* found cannot be added, the call raises before anything is run.
DbDeleteUnguarded(tok, group, is_controller, two_way, cb) ==
  LET remote == Find(tok)
      addr == ResolvedAddr(remote, tok)
      op == Len(ops) + 1
      st == [queue |-> queue,
             ops |-> Append(Tracked, LinkOp("del", tok, group, NoData, two_way, is_controller, cb))]
  IN IF NotFound(MirrorFind(db, addr, group, is_controller))
     THEN IF cb THEN Returned(db, Fire(st, op, cb, FALSE, "Entry doesn't exist", NoEntry))
                ELSE Raised(db, st)
     ELSE IF two_way /\ remote.t = "none"
     THEN Raised(db, st)
     ELSE Returned(db, DbDeleteRun(st, db, devdb, op, cb, <<>>, remote, addr, group,
                                   is_controller, two_way))

\* Mutant: the sequence is built and never run.
DbDeleteNoRun(tok, group, is_controller, two_way, cb) ==
  LET remote == Find(tok)
      addr == ResolvedAddr(remote, tok)
      entry == MirrorFind(db, addr, group, is_controller)
      op == Len(ops) + 1
      st == [queue |-> queue,
             ops |-> Append(Tracked, LinkOp("del", tok, group, NoData, two_way, is_controller, cb))]
  IN IF NotFound(entry)
     THEN IF cb THEN Returned(db, Fire(st, op, cb, FALSE, "Entry doesn't exist", NoEntry))
                ELSE Raised(db, st)
     ELSE Returned(db, CountSteps(st, op, <<>>,
                                  Len(DeleteCalls(remote, entry, group, two_way, is_controller))))

\* Modem._db_delete.  With no on_done given, line 639 calls None.
DbDelete(tok, group, is_controller, two_way, cb) ==
  LET remote == Find(tok)
      addr == ResolvedAddr(remote, tok)
      op == Len(ops) + 1
      st == [queue |-> queue,
             ops |-> Append(Tracked, LinkOp("del", tok, group, NoData, two_way, is_controller, cb))]
  IN IF NotFound(MirrorFind(db, addr, group, is_controller)) /\ ~cb
     THEN Raised(db, st)
     ELSE Returned(db, DbDeleteRun(st, db, devdb, op, cb, <<>>, remote, addr, group,
                                   is_controller, two_way))

\* Modem.refresh, as the call op: clear the mirror, request the first record.
RefreshRun(st, op, cb) == Send(st, Message("get_first", op, cb, NoDev, NoEntry, <<>>))

\* Mutant: the mirror is not cleared.
RefreshNoClear(cb) ==
  LET op == Len(ops) + 1
      st == [queue |-> queue, ops |-> Append(Tracked, NewOp("refresh", cb))]
  IN Returned(db, RefreshRun(st, op, cb))

\* Modem.refresh
Refresh(cb) ==
  LET op == Len(ops) + 1
      st == [queue |-> queue, ops |-> Append(Tracked, NewOp("refresh", cb))]
  IN Returned(<<>>, RefreshRun(st, op, cb))

\* The on_done refresh_all gives to the device at place i of n.
RefreshAllCallback(i, n, cb) == IF i = n THEN cb ELSE FALSE

\* The loop of refresh_all from place i on: device.refresh(force, on_done=callback)
RECURSIVE RefreshDevices(_, _, _, _, _)
RefreshDevices(st, op, cb, devs, i) ==
  IF i > Len(devs) THEN st
  ELSE LET callback == RefreshAllCallback(i, Len(devs), cb)
           sent == Send(st, Message("dev_refresh", op, callback, devs[i], NoEntry, <<>>))
       IN RefreshDevices([sent EXCEPT !.ops[op].log =
                                          Append(@, [dev |-> devs[i], cb |-> callback])],
                         op, cb, devs, i + 1)

\* Modem.refresh_all
RefreshAll(cb) ==
  LET op == Len(ops) + 1
      st == [queue |-> queue, ops |-> Append(Tracked, NewOp("refresh_all", cb))]
  IN Returned(<<>>, RefreshDevices(RefreshRun(st, op, FALSE), op, cb, devices, 1))

\* Modem.linking
Linking(cb) ==
  LET op == Len(ops) + 1
      st == [queue |-> queue, ops |-> Append(Tracked, NewOp("linking", cb))]
  IN Returned(db, Send(st, Message("linking", op, cb, NoDev, NoEntry, <<>>)))

(***************************************************************************)
(* run_command                                                             *)
(***************************************************************************)
S_db_add_ctrl_of == <<"d","b","_","a","d","d","_","c","t","r","l","_","o","f">>
S_db_add_resp_of == <<"d","b","_","a","d","d","_","r","e","s","p","_","o","f">>
S_db_del_ctrl_of == <<"d","b","_","d","e","l","_","c","t","r","l","_","o","f">>
S_db_del_resp_of == <<"d","b","_","d","e","l","_","r","e","s","p","_","o","f">>
S_refresh == <<"r","e","f","r","e","s","h">>
S_refresh_all == <<"r","e","f","r","e","s","h","_","a","l","l">>
S_linking == <<"l","i","n","k","i","n","g">>
S_bogus == <<"b","o","g","u","s">>
S_REFRESH_sp == <<" ","R","E","F","R","E","S","H"," ">>

\* self.cmd_map
cmd_map ==
  (S_db_add_ctrl_of :> "db_add_ctrl_of")
  @@ (S_db_add_resp_of :> "db_add_resp_of")
  @@ (S_db_del_ctrl_of :> "db_del_ctrl_of")
  @@ (S_db_del_resp_of :> "db_del_resp_of")
  @@ (S_refresh :> "refresh")
  @@ (S_refresh_all :> "refresh_all")
  @@ (S_linking :> "linking")

\* kwargs['cmd']: missing, None, a string, or a number
CmdMissing == [t |-> "missing", s |-> <<>>, n |-> 0]
CmdNone    == [t |-> "none", s |-> <<>>, n |-> 0]
CmdStr(s)  == [t |-> "str", s |-> s, n |-> 0]
CmdInt(n)  == [t |-> "int", s |-> <<>>, n |-> n]

\* Python's truth value of kwargs.pop('cmd', None)
Truthy(cmd) ==
  CASE cmd.t = "str" -> cmd.s # <<>>
    [] cmd.t = "int" -> cmd.n # 0
    [] OTHER -> FALSE

\* func(**kwargs) for the command func, with arguments of the right shape
Dispatch(func, a) ==
  CASE func = "db_add_ctrl_of" -> DbUpdate(a.tok, a.group, a.data, a.two_way, TRUE, a.cb)
    [] func = "db_add_resp_of" -> DbUpdate(a.tok, a.group, a.data, a.two_way, FALSE, a.cb)
    [] func = "db_del_ctrl_of" -> DbDelete(a.tok, a.group, TRUE, a.two_way, a.cb)
    [] func = "db_del_resp_of" -> DbDelete(a.tok, a.group, FALSE, a.two_way, a.cb)
    [] func = "refresh" -> Refresh(a.cb)
    [] func = "refresh_all" -> RefreshAll(a.cb)
    [] func = "linking" -> Linking(a.cb)

Unchanged == [db |-> db, queue |-> queue, ops |-> ops, raised |-> FALSE]

\* What cmd.lower() does to a cmd that is not a string: it raises.
LowerRaises(cmd) == cmd.t # "str"

\* Modem.run_command(**kwargs): kw.cmd is kwargs['cmd'], kw.shape tells whether the
\* other keywords fit the command's parameters, kw.args are those keywords.
RunCommandCall(kw) ==
  IF ~Truthy(kw.cmd) THEN Unchanged
  ELSE IF LowerRaises(kw.cmd) THEN [Unchanged EXCEPT !.raised = TRUE]
  ELSE LET cmd == Strip(Lower(kw.cmd.s)) IN
       IF cmd \notin DOMAIN cmd_map THEN Unchanged
       ELSE IF ~kw.shape THEN Unchanged
       ELSE [Dispatch(cmd_map[cmd], kw.args) EXCEPT !.raised = FALSE]

(***************************************************************************)
(* The transport and the reply handlers.  The head of the write queue is   *)
(* the one message in flight; its reply (or its timeout) runs its handler, *)
(* and whatever the handler sends goes to the back of the queue.  w is the *)
(* state a handler may change: [db, hw, hwPos, devdb, queue, ops].         *)
(***************************************************************************)
\* on_done(success, msg, ent) of the handler of message m
Complete(w, m, success, msg, ent) ==
  LET st == Deliver([queue |-> w.queue, ops |-> w.ops], w.db, w.devdb,
                    m.op, m.cb, m.cont, success, msg, ent)
  IN [w EXCEPT !.queue = st.queue, !.ops = st.ops]

Acked(w, m) == [w EXCEPT !.ops[m.op].acks = @ + 1]

Nacked(w, m) == [w EXCEPT !.ops[m.op].naks = @ + 1]

\* handler.ModemDbModify: an acknowledged write is applied to the mirror.
ModemDbModify(w, m, outcome) ==
  IF outcome # "ack"
  THEN Complete(Nacked(w, m), m, FALSE, "Modem database update failed", NoEntry)
  ELSE IF m.typ = "modem_add"
  THEN Complete(Acked([w EXCEPT !.hw = DbAddEntry(@, m.ent), !.db = DbAddEntry(@, m.ent)], m),
                m, TRUE, "Modem database updated", m.ent)
  ELSE Complete(Acked([w EXCEPT !.hw = DbDeleteEntry(@, m.ent),
                                !.db = DbDeleteEntry(@, m.ent)], m),
                m, TRUE, "Modem database updated", m.ent)

\* A device whose operation was called with two_way True does what the modem does:
\* after its own write it calls the complementary operation, with two_way False, on
\* the endpoint it was given, the modem.
DeviceCallsBack(w, m) ==
  LET st == [queue |-> w.queue, ops |-> w.ops]
      back == IF m.typ = "dev_add_2w"
              THEN DbUpdateRun(st, w.db, w.devdb, m.op, m.cb, m.cont, FoundDev(m.dev),
                               KeyOfId(m.dev.addr), m.ent.group, NoData, FALSE, ~m.ent.ctrl)
              ELSE DbDeleteRun(st, w.db, w.devdb, m.op, m.cb, m.cont, FoundDev(m.dev),
                               KeyOfId(m.dev.addr), m.ent.group, ~m.ent.ctrl, FALSE)
  IN [w EXCEPT !.queue = back.queue, !.ops = back.ops]

\* The device's handler of a link write: an acknowledged write is applied to its records.
DeviceDbModify(w, m, outcome) ==
  IF outcome # "ack"
  THEN Complete(Nacked(w, m), m, FALSE, "Device database update failed", NoEntry)
  ELSE IF m.typ = "dev_add_2w"
  THEN DeviceCallsBack(Acked([w EXCEPT !.devdb[m.dev] = DbAddEntry(@, m.ent)], m), m)
  ELSE IF m.typ = "dev_del_2w"
  THEN DeviceCallsBack(Acked([w EXCEPT !.devdb[m.dev] = DbDeleteEntry(@, m.ent)], m), m)
  ELSE IF m.typ = "dev_add"
  THEN Complete(Acked([w EXCEPT !.devdb[m.dev] = DbAddEntry(@, m.ent)], m),
                m, TRUE, "Device database updated", m.ent)
  ELSE Complete(Acked([w EXCEPT !.devdb[m.dev] = DbDeleteEntry(@, m.ent)], m),
                m, TRUE, "Device database updated", m.ent)

\* The record the hardware answers a get-first or get-next with.
ReadPos(w, m) == IF m.typ = "get_first" THEN 1 ELSE w.hwPos + 1

\* handler.ModemDbGet: a record is added to the mirror and the next one requested;
\* the end of the table completes the refresh.
ModemDbGet(w, m, outcome) ==
  CASE outcome = "ack" ->
         Send([w EXCEPT !.db = DbAddEntry(@, w.hw[ReadPos(w, m)]), !.hwPos = ReadPos(w, m)],
              Message("get_next", m.op, m.cb, NoDev, NoEntry, m.cont))
    [] outcome = "nak" ->
         Complete(Acked(w, m), m, TRUE, "Database download complete", NoEntry)
    [] OTHER -> Complete(Nacked(w, m), m, FALSE, "Database download failed", NoEntry)

\* The device's refresh handler: its records are current, or they are requested.
DeviceRefresh(w, m, outcome) ==
  CASE outcome = "ack" -> Complete(w, m, TRUE, "Refresh complete", NoEntry)
    [] outcome = "more" ->
         Send(w, Message("dev_db_get", m.op, m.cb, m.dev, NoEntry, m.cont))
    [] OTHER -> Complete(w, m, FALSE, "Refresh failed", NoEntry)

\* The handlers that only report: the device's record download, handler.ModemLinkStart.
Report(w, m, outcome) ==
  IF outcome = "ack"
  THEN Complete(w, m, TRUE, "Complete", NoEntry)
  ELSE Complete(w, m, FALSE, "Failed", NoEntry)

Outcomes == {"ack", "more", "nak", "timeout"}

\* The replies the message in flight may get.
Possible(w, m, outcome) ==
  CASE m.typ \in {"get_first", "get_next"} ->
         \/ outcome = "ack" /\ ReadPos(w, m) <= Len(w.hw)
         \/ outcome = "nak" /\ ReadPos(w, m) > Len(w.hw)
         \/ outcome = "timeout"
    [] m.typ = "dev_refresh" -> TRUE
    [] OTHER -> outcome # "more"

Handle(w, m, outcome) ==
  CASE m.typ \in {"modem_add", "modem_del"} -> ModemDbModify(w, m, outcome)
    [] m.typ \in {"dev_add", "dev_del", "dev_add_2w", "dev_del_2w"} ->
         DeviceDbModify(w, m, outcome)
    [] m.typ \in {"get_first", "get_next"} -> ModemDbGet(w, m, outcome)
    [] m.typ = "dev_refresh" -> DeviceRefresh(w, m, outcome)
    [] OTHER -> Report(w, m, outcome)

\* The transport delivers the reply to the message in flight.
Reply(outcome) ==
  /\ queue # <<>>
  /\ LET m == Head(queue)
         w == [db |-> db, hw |-> hw, hwPos |-> hwPos, devdb |-> devdb,
               queue |-> Tail(queue), ops |-> ops]
     IN /\ Possible(w, m, outcome)
        /\ LET n == Handle(w, m, outcome)
           IN /\ db' = n.db
              /\ hw' = n.hw
              /\ hwPos' = n.hwPos
              /\ devdb' = n.devdb
              /\ queue' = n.queue
              /\ ops' = n.ops
  /\ last' = [api |-> "reply", raised |-> FALSE]
  /\ UNCHANGED regVars

(***************************************************************************)
(* The API calls as actions.                                               *)
(***************************************************************************)
Apply(r, api) ==
  /\ db' = r.db
  /\ queue' = r.queue
  /\ ops' = r.ops
  /\ last' = [api |-> api, raised |-> r.raised]
  /\ UNCHANGED <<devices, device_names, hw, hwPos, devdb>>

\* The link calls in progress.
LinksPending ==
  Cardinality({i \in DOMAIN ops : ops[i].kind \in {"add", "del"} /\ ~Finished(i)})

CanCall == Len(ops) < MaxOps

CanLink == CanCall /\ LinksPending < MaxLinks

\* The tokens the calls name their target with.
OpTokens == {S_lamp, S_B2, S_Modem, S_a1}

db_add_ctrl_of(tok, group, data, two_way, cb) ==
  /\ CanLink
  /\ Apply(DbUpdate(tok, group, data, two_way, TRUE, cb), "db_add_ctrl_of")

db_add_resp_of(tok, group, data, two_way, cb) ==
  /\ CanLink
  /\ Apply(DbUpdate(tok, group, data, two_way, FALSE, cb), "db_add_resp_of")

db_del_ctrl_of(tok, group, two_way, cb) ==
  /\ CanLink
  /\ Apply(DbDelete(tok, group, TRUE, two_way, cb), "db_del_ctrl_of")

db_del_resp_of(tok, group, two_way, cb) ==
  /\ CanLink
  /\ Apply(DbDelete(tok, group, FALSE, two_way, cb), "db_del_resp_of")

refresh(cb) ==
  /\ CanCall
  /\ Apply(Refresh(cb), "refresh")

refresh_all(cb) ==
  /\ CanCall
  /\ Apply(RefreshAll(cb), "refresh_all")

linking(cb) ==
  /\ CanCall
  /\ Apply(Linking(cb), "linking")

\* The keywords run_command is called with.
CmdArgs ==
  [tok : {S_lamp, S_Modem}, group : Groups, data : {NoData}, two_way : BOOLEAN,
   cb : BOOLEAN]

NoArgs == [tok |-> <<>>, group |-> 0, data |-> NoData, two_way |-> FALSE, cb |-> FALSE]

\* Values of 'cmd' that name no command, and values that name one.
BadCmds == {CmdMissing, CmdNone, CmdStr(<<>>), CmdInt(0), CmdInt(5), CmdStr(S_bogus)}

GoodCmds == {CmdStr(S_REFRESH_sp)} \cup {CmdStr(s) : s \in DOMAIN cmd_map}

KwInputs ==
  {[cmd |-> c, shape |-> FALSE, args |-> NoArgs] : c \in BadCmds \cup GoodCmds}
  \cup {[cmd |-> c, shape |-> TRUE, args |-> a] : c \in GoodCmds, a \in CmdArgs}

run_command(kw) ==
  /\ CanLink
  /\ Apply(RunCommandCall(kw), "run_command")

(***************************************************************************)
(* load_db and load_config.  The database file is the environment's: it is *)
(* absent, it cannot be read, it holds no JSON document, or it holds the   *)
(* records that were saved.                                                *)
(***************************************************************************)
FileNone       == [t |-> "none", doc |-> <<>>]
FileAbsent     == [t |-> "absent", doc |-> <<>>]
FileUnreadable == [t |-> "unreadable", doc |-> <<>>]
FileCorrupt    == [t |-> "corrupt", doc |-> <<>>]
FileOk(doc)    == [t |-> "ok", doc |-> doc]

\* Modem.load_db: the mirror it leaves.  Without a file it returns at line 185,
\* after an exception at line 195; self.db is assigned at line 192 only.
LoadDb(m, file) == IF file.t = "ok" THEN file.doc ELSE m

\* Modem.load_db
load_db(file) ==
  /\ db' = LoadDb(db, file)
  /\ last' = [api |-> "load_db", raised |-> FALSE, file |-> file.t]
  /\ UNCHANGED <<devices, device_names, hw, hwPos, devdb, queue, ops>>

\* The loop of load_config from line 135 on: device.refresh() for every device.
RECURSIVE StartupRefresh(_, _, _, _)
StartupRefresh(st, op, devs, i) ==
  IF i > Len(devs) THEN st
  ELSE StartupRefresh(Send(st, Message("dev_refresh", op, FALSE, devs[i], NoEntry, <<>>)),
                      op, devs, i + 1)

\* Modem.load_config(data): data.storage tells whether 'storage' is given, data.file
\* is the file at that path, data.devices the configured devices.
load_config(data) ==
  /\ CanCall
  /\ LET reg == LoadDevices(data.devices, EmptyRegistry)
         op == Len(ops) + 1
         st == [queue |-> queue, ops |-> Append(Tracked, NewOp("load_config", FALSE))]
         sent == IF data.startup_refresh THEN StartupRefresh(st, op, reg.devices, 1) ELSE st
     IN /\ db' = IF data.storage THEN LoadDb(db, data.file) ELSE db
        /\ devices' = reg.devices
        /\ device_names' = reg.device_names
        /\ queue' = sent.queue
        /\ ops' = sent.ops
        /\ last' = [api |-> "load_config", raised |-> FALSE,
                    file |-> IF data.storage THEN data.file.t ELSE FileNone.t]
  /\ UNCHANGED <<hw, hwPos, devdb>>

(***************************************************************************)
(* Specifications.                                                         *)
(***************************************************************************)
\* A controller link to DevLamp made earlier, with its two records.
LampLink == Entry(KeyOfId(DevLamp.addr), 1, TRUE, <<1, 0, 0>>)
LampPeer == Entry(KeyOfId(ModemAddr), 1, FALSE, <<1, 0, 0>>)

\* After construction and load_config: the configured devices are registered and
\* the mirror is what load_db read, the link table as it was saved.
Init ==
  /\ \E cfg \in Configs :
       /\ devices = LoadDevices(cfg, EmptyRegistry).devices
       /\ device_names = LoadDevices(cfg, EmptyRegistry).device_names
  /\ \E linked \in BOOLEAN :
       /\ hw = IF linked THEN <<LampLink>> ELSE <<>>
       /\ db = hw
       /\ devdb = [d \in AllDevs |-> IF linked /\ d = DevLamp THEN <<LampPeer>> ELSE <<>>]
  /\ hwPos = 0
  /\ queue = <<>>
  /\ ops = <<>>
  /\ last = [api |-> "load_config", raised |-> FALSE]

Next ==
  \/ \E tok \in OpTokens, group \in Groups, data \in Datas, two_way \in BOOLEAN,
        cb \in BOOLEAN : db_add_ctrl_of(tok, group, data, two_way, cb)
  \/ \E tok \in OpTokens, group \in Groups, data \in Datas, two_way \in BOOLEAN,
        cb \in BOOLEAN : db_add_resp_of(tok, group, data, two_way, cb)
  \/ \E tok \in OpTokens, group \in Groups, two_way \in BOOLEAN, cb \in BOOLEAN :
        db_del_ctrl_of(tok, group, two_way, cb)
  \/ \E tok \in OpTokens, group \in Groups, two_way \in BOOLEAN, cb \in BOOLEAN :
        db_del_resp_of(tok, group, two_way, cb)
  \/ \E cb \in BOOLEAN : refresh(cb)
  \/ \E cb \in BOOLEAN : refresh_all(cb)
  \/ \E cb \in BOOLEAN : linking(cb)
  \/ \E kw \in KwInputs : run_command(kw)
  \/ \E outcome \in Outcomes : Reply(outcome)

Spec == Init /\ [][Next]_vars

\* The transport answers or times out every message it was given.
FairSpec == Spec /\ WF_vars(\E outcome \in Outcomes : Reply(outcome))

\* The link calls and the transport.
NextLink ==
  \/ \E tok \in OpTokens, group \in Groups, data \in Datas, two_way \in BOOLEAN,
        cb \in BOOLEAN : db_add_ctrl_of(tok, group, data, two_way, cb)
  \/ \E tok \in OpTokens, group \in Groups, data \in Datas, two_way \in BOOLEAN,
        cb \in BOOLEAN : db_add_resp_of(tok, group, data, two_way, cb)
  \/ \E tok \in OpTokens, group \in Groups, two_way \in BOOLEAN, cb \in BOOLEAN :
        db_del_ctrl_of(tok, group, two_way, cb)
  \/ \E tok \in OpTokens, group \in Groups, two_way \in BOOLEAN, cb \in BOOLEAN :
        db_del_resp_of(tok, group, two_way, cb)
  \/ \E outcome \in Outcomes : Reply(outcome)

SpecLink == Init /\ [][NextLink]_vars

FairLink == SpecLink /\ WF_vars(\E outcome \in Outcomes : Reply(outcome))

\* The refreshes, the link deletes and the transport.
NextRefresh ==
  \/ \E cb \in BOOLEAN : refresh(cb)
  \/ \E cb \in BOOLEAN : refresh_all(cb)
  \/ \E tok \in OpTokens, group \in Groups, two_way \in BOOLEAN, cb \in BOOLEAN :
        db_del_ctrl_of(tok, group, two_way, cb)
  \/ \E tok \in OpTokens, group \in Groups, two_way \in BOOLEAN, cb \in BOOLEAN :
        db_del_resp_of(tok, group, two_way, cb)
  \/ \E outcome \in Outcomes : Reply(outcome)

SpecRefresh == Init /\ [][NextRefresh]_vars

\* More links made earlier: the modem as responder of DevLamp, as controller of
\* DevFan, and what the devices hold for them.
LampResp == Entry(KeyOfId(DevLamp.addr), 1, FALSE, <<1, 0, 0>>)
LampCtrl == Entry(KeyOfId(ModemAddr), 1, TRUE, <<1, 0, 0>>)
FanLink  == Entry(KeyOfId(DevFan.addr), 1, TRUE, <<1, 0, 0>>)
FanPeer  == Entry(KeyOfId(ModemAddr), 1, FALSE, <<1, 0, 0>>)

\* The link tables the modem's hardware may hold at start.
Tables == {<<>>, <<LampLink>>, <<LampLink, LampResp>>}

\* After construction and load_config, with a mirror that may be stale: the saved
\* file still has the link to DevFan, the hardware has lost it since.
InitStale ==
  /\ \E cfg \in Configs :
       /\ devices = LoadDevices(cfg, EmptyRegistry).devices
       /\ device_names = LoadDevices(cfg, EmptyRegistry).device_names
  /\ \E table \in Tables, stale \in BOOLEAN :
       /\ hw = table
       /\ db = hw \o (IF stale THEN <<FanLink>> ELSE <<>>)
       /\ devdb = [d \in AllDevs |->
                     IF d = DevLamp
                       THEN [k \in 1..Len(table) |-> <<LampPeer, LampCtrl>>[k]]
                     ELSE IF d = DevFan /\ stale THEN <<FanPeer>>
                     ELSE <<>>]
  /\ hwPos = 0
  /\ queue = <<>>
  /\ ops = <<>>
  /\ last = [api |-> "load_config", raised |-> FALSE]

SpecSync == InitStale /\ [][NextRefresh]_vars

\* The facade: every call comes in through run_command.
NextCmd ==
  \/ \E kw \in KwInputs : run_command(kw)
  \/ \E outcome \in Outcomes : Reply(outcome)

SpecCmd == Init /\ [][NextCmd]_vars

\* The registry alone: devices are registered and removed.
NextReg ==
  \/ \E d \in RegDevs : Add(d)
  \/ \E d \in RegDevs : Remove(d)

SpecReg == Init /\ [][NextReg]_vars

\* The files load_db may find, and the configurations load_config is given.
Files == {FileAbsent, FileUnreadable, FileCorrupt, FileOk(<<>>), FileOk(<<LampLink>>)}

ConfigDatas ==
  [storage : BOOLEAN, file : Files, devices : Configs, startup_refresh : BOOLEAN]

\* The configuration is loaded again, the database file is read again.
NextLoad ==
  \/ \E file \in Files : load_db(file)
  \/ \E data \in ConfigDatas : load_config(data)
  \/ \E outcome \in Outcomes : Reply(outcome)

SpecLoad == Init /\ [][NextLoad]_vars

\* The registry and its lookups.
NextFind ==
  \/ \E d \in RegDevs : Add(d)
  \/ \E d \in RegDevs : Remove(d)
  \/ \E tok \in FindTokens : find(tok)

SpecFind == Init /\ [][NextFind]_vars

(***************************************************************************)
(* Properties.                                                             *)
(***************************************************************************)
\* A two-way link call whose target find resolved to a registered device.
TwoWayToDevice(o, kind) == o.kind = kind /\ o.tw /\ o.remote.t = "dev"

\* No other call is tracked: none was pending when call i was made, none was made since.
Alone(i) == \A j \in DOMAIN ops : j # i => ops[j].kind = "forgotten"

\* C1: a two-way add to a registered device whose two writes (on the modem, on the
\* device) both succeed tells its callback success exactly once, and it tells it
\* success only when both writes have been acknowledged.
C1_TwoWayAddSucceedsOnce ==
  \A i \in DOMAIN ops :
    TwoWayToDevice(ops[i], "add") /\ ops[i].cb =>
      /\ ops[i].fired <= 1
      /\ ops[i].acks = 2 => ops[i].fired = 1 /\ ops[i].succ
      /\ ops[i].fired = 1 /\ ops[i].succ => ops[i].acks = 2

C1_Witness ==
  \E i \in DOMAIN ops :
    /\ TwoWayToDevice(ops[i], "add") /\ ops[i].cb
    /\ ops[i].acks = 2 /\ ops[i].fired = 1 /\ ops[i].succ

\* The messages of a link call to a device carry the call's record on the modem and
\* the record of the opposite role, with the modem as peer, on the device.
RolesPaired(m, o) ==
  /\ m.typ \in {"modem_add", "modem_del"} /\ o.remote.t = "dev" =>
       /\ m.ent.addr = KeyOfId(o.remote.d.addr)
       /\ m.ent.group = o.group
       /\ m.ent.ctrl = o.ctrl
       /\ o.kind = (IF m.typ = "modem_add" THEN "add" ELSE "del")
  /\ m.typ \in {"dev_add", "dev_del"} =>
       /\ o.tw /\ o.remote = FoundDev(m.dev)
       /\ o.kind = (IF m.typ = "dev_add" THEN "add" ELSE "del")
       /\ m.ent.addr = KeyOfId(ModemAddr)
       /\ m.ent.group = o.group
       /\ m.ent.ctrl = ~o.ctrl

\* C2: the operation issued on the device has the opposite role, the modem's address
\* as peer and the same group, for adds and for deletes; once both writes of a
\* two-way add are acknowledged (and no other call interfered) the mirror holds the
\* record (A, g, role) with the payload asked for and the device holds
\* (modem address, g, opposite role).
C2_RolePairing ==
  /\ \A k \in DOMAIN queue : RolesPaired(queue[k], ops[queue[k].op])
  /\ \A i \in DOMAIN ops :
       TwoWayToDevice(ops[i], "add") /\ ops[i].acks = 2 /\ Alone(i) =>
         /\ MirrorFind(db, KeyOfId(ops[i].remote.d.addr), ops[i].group, ops[i].ctrl)
              = Entry(KeyOfId(ops[i].remote.d.addr), ops[i].group, ops[i].ctrl,
                      IF ops[i].data = NoData
                      THEN link_data(ops[i].group, ops[i].ctrl) ELSE ops[i].data)
         /\ MirrorFind(devdb[ops[i].remote.d], KeyOfId(ModemAddr), ops[i].group,
                       ~ops[i].ctrl) # NoEntry

\* add-as-controller of "lamp", group 1, data [1, 2, 3], two-way, all acknowledged
C2_Witness ==
  \E i \in DOMAIN ops :
    /\ TwoWayToDevice(ops[i], "add") /\ ops[i].acks = 2 /\ Alone(i)
    /\ ops[i].ctrl /\ ops[i].data = <<1, 2, 3>> /\ ops[i].remote.d = DevLamp
    /\ MirrorFind(devdb[DevLamp], KeyOfId(ModemAddr), 1, FALSE) # NoEntry

\* A step that is a delete call for a record the mirror does not hold.
DeleteOfAbsent ==
  /\ Len(ops') = Len(ops) + 1
  /\ ops'[Len(ops')].kind = "del"
  /\ MirrorFind(db, ops'[Len(ops')].addr, ops'[Len(ops')].group, ops'[Len(ops')].ctrl)
       = NoEntry

\* C3: a delete for a record absent from the mirror tells its callback, inside the
\* call, (False, "Entry doesn't exist", None); it adds no step, sends nothing, and
\* leaves the mirror, the modem and the devices as they were, two-way or not.
C3_DeleteAbsentFails ==
  [][DeleteOfAbsent =>
       /\ queue' = queue /\ db' = db /\ hw' = hw /\ devdb' = devdb
       /\ ops'[Len(ops')].steps = 0 /\ ops'[Len(ops')].nested = 0
       /\ ops'[Len(ops')].cb =>
            /\ ops'[Len(ops')].fired = 1
            /\ ~ops'[Len(ops')].succ
            /\ ops'[Len(ops')].msg = "Entry doesn't exist"
            /\ ops'[Len(ops')].ent = NoEntry]_vars

C3_Witness ==
  \E i \in DOMAIN ops :
    /\ TwoWayToDevice(ops[i], "del") /\ ops[i].cb
    /\ ops[i].steps = 0 /\ ops[i].fired = 1 /\ ~ops[i].succ
    /\ ops[i].msg = "Entry doesn't exist"

\* C4: a two-way add whose target find does not resolve adds exactly one step, the
\* write on the modem; nothing is sent to any other endpoint, and its callback is
\* told once, with the outcome of that write.
C4_UnresolvedAddIsOneWay ==
  \A i \in DOMAIN ops :
    ops[i].kind = "add" /\ ops[i].tw /\ ops[i].remote.t = "none" =>
      /\ ops[i].steps = 1 /\ ops[i].nested = 0
      /\ \A k \in DOMAIN queue : queue[k].op = i => queue[k].typ = "modem_add"
      /\ ops[i].acks + ops[i].naks = (IF Finished(i) THEN 1 ELSE 0)
      /\ ops[i].cb =>
           /\ ops[i].fired = ops[i].acks + ops[i].naks
           /\ ops[i].fired = 1 => (ops[i].succ <=> ops[i].acks = 1)

C4_Witness ==
  \E i \in DOMAIN ops :
    /\ ops[i].kind = "add" /\ ops[i].tw /\ ops[i].remote.t = "none" /\ ops[i].cb
    /\ ops[i].fired = 1 /\ ops[i].succ /\ ops[i].steps = 1

\* A two-way link call whose write on the modem succeeded and whose step on the
\* remote then failed.
FailedAfterModem(o) ==
  o.kind \in {"add", "del"} /\ o.tw /\ o.remote.t # "none" /\ o.acks = 1 /\ o.naks = 1

\* The step in which the step on the remote of call i fails.
RemoteStepFails(i) ==
  /\ i \in DOMAIN ops /\ i \in DOMAIN ops'
  /\ ops[i].kind \in {"add", "del"} /\ ops'[i].kind = ops[i].kind
  /\ ops'[i].naks > ops[i].naks /\ ops'[i].acks >= 1

\* C5: when the step on the remote fails after the write on the modem succeeded, the
\* failing step changes the mirror and the modem's table in no way but by the write
\* acknowledged in that very step, and sends nothing more for the call; with no
\* other call interfering, the added record is still in the mirror and in the
\* modem, the deleted record is still gone.
C5_State ==
  \A i \in DOMAIN ops :
    FailedAfterModem(ops[i]) /\ Alone(i) =>
      /\ ops[i].kind = "add" =>
           /\ MirrorFind(db, ops[i].addr, ops[i].group, ops[i].ctrl) # NoEntry
           /\ MirrorFind(hw, ops[i].addr, ops[i].group, ops[i].ctrl) # NoEntry
      /\ ops[i].kind = "del" =>
           /\ MirrorFind(db, ops[i].addr, ops[i].group, ops[i].ctrl) = NoEntry
           /\ MirrorFind(hw, ops[i].addr, ops[i].group, ops[i].ctrl) = NoEntry

C5_Step ==
  \A i \in 1..MaxOps :
    RemoteStepFails(i) =>
      /\ \A k \in DOMAIN queue' : queue'[k].op # i
      /\ ops'[i].acks = ops[i].acks => db' = db /\ hw' = hw
      /\ ops'[i].acks > ops[i].acks =>
           /\ db' = DbDeleteEntry(db, Head(queue).ent)
           /\ hw' = DbDeleteEntry(hw, Head(queue).ent)

C5_ForwardOnly == []C5_State /\ [][C5_Step]_vars

C5_Witness ==
  \E i \in DOMAIN ops :
    /\ FailedAfterModem(ops[i]) /\ Alone(i) /\ ops[i].kind = "add"
    /\ ops[i].remote.t = "dev" /\ ops[i].fired = 1 /\ ~ops[i].succ
    /\ MirrorFind(db, ops[i].addr, ops[i].group, ops[i].ctrl) # NoEntry

\* A link call that added at least one step and was given a callback.
Sequenced(o) == o.kind \in {"add", "del"} /\ o.cb /\ o.steps >= 1

C6_Safe ==
  \A i \in DOMAIN ops :
    Sequenced(ops[i]) =>
      /\ ops[i].fired <= 1
      /\ ops[i].naks >= 1 => ops[i].fired = 1 /\ ~ops[i].succ
      /\ ops[i].fired = 1 /\ ops[i].succ => ops[i].naks = 0
      /\ Finished(i) => ops[i].fired = 1

C6_Live ==
  \A i \in 1..MaxOps :
    (i \in DOMAIN ops /\ Sequenced(ops[i]))
      ~> (i \in DOMAIN ops /\ (ops[i].fired = 1 \/ ops[i].kind = "forgotten"))

\* C6: a link call that added a step tells its callback exactly once: False as soon
\* as a step fails (a negative reply, a timeout, a record the remote does not hold),
\* never True after a failure, never a second time; and when the transport answers or
\* times out every message, the callback is eventually told.
C6_CallbackExactlyOnce == []C6_Safe /\ C6_Live

C6_Witness ==
  \E i \in DOMAIN ops :
    /\ Sequenced(ops[i]) /\ ops[i].kind = "del" /\ ops[i].tw
    /\ ops[i].acks = 1 /\ ops[i].naks = 1 /\ ops[i].fired = 1 /\ ~ops[i].succ

\* C7: refresh_all issues one refresh per registered device, in the order of the
\* registry, and gives the caller's callback to exactly one of them, the last; the
\* modem's refresh and every other device's get none.
C7_RefreshAllFanOut ==
  \A i \in DOMAIN ops :
    ops[i].kind = "refresh_all" =>
      /\ Len(ops[i].log) = Len(devices)
      /\ \A k \in DOMAIN ops[i].log : ops[i].log[k].dev = devices[k]
      /\ \A k \in DOMAIN queue :
           queue[k].op = i /\ queue[k].typ \in {"get_first", "get_next"} => ~queue[k].cb
      /\ ops[i].cb =>
           Cardinality({k \in DOMAIN ops[i].log : ops[i].log[k].cb}) = 1
      /\ \A k \in DOMAIN ops[i].log : ops[i].log[k].cb => k = Len(ops[i].log)

\* C8: when the callback of refresh_all is told, nothing that refresh_all started is
\* still in the write queue: the modem's refresh and every device's are complete.
C8_RefreshAllCallbackIsLast ==
  \A i \in DOMAIN ops :
    ops[i].kind = "refresh_all" /\ ops[i].fired >= 1 => Finished(i)

\* C9: run_command returns normally whatever its keywords are.
C9_RunCommandNeverRaises == last.api = "run_command" => ~last.raised

\* C10: find gives the modem for the modem's address and for "modem" in any letter
\* case, whatever devices are registered.
C10_FindModem ==
  /\ Find(S_modem) = FoundModem
  /\ Find(S_Modem) = FoundModem
  /\ Find(S_MODEM) = FoundModem
  /\ Find(S_a1) = FoundModem
  /\ Find(S_A1) = FoundModem
  /\ FindId(devices, ModemAddr) = FoundModem

\* A device that holds its id in the id index and its friendly name in the name
\* index, and that is not mistaken for the modem (C10 is about those).
RegisteredByName(d) ==
  /\ d.name # <<>> /\ d.name \in DOMAIN device_names /\ device_names[d.name] = d
  /\ d.addr # ModemAddr /\ Lower(d.name) # S_modem /\ Lower(d.name) # S_a1

\* C11: a registered device that has a friendly name is what find gives for its
\* name and for its address, whatever the letter case of the name.
C11_FindByNameIsFindByAddress ==
  \A i \in DOMAIN devices :
    RegisteredByName(devices[i]) =>
      /\ Find(devices[i].name) = FoundDev(devices[i])
      /\ FindId(devices, devices[i].addr) = FoundDev(devices[i])

\* C12: after add(d) then remove(d), find gives for every token (a string or an
\* address) what it gave before the add, whatever was registered before.
C12_AddRemoveRestoresLookup ==
  \A d \in RegDevs :
    LET after == Removed(Added(Registry, d), d)
    IN /\ \A tok \in FindTokens : FindReg(after, tok) = Find(tok)
       /\ \A e \in RegDevs : FindId(after.devices, e.addr) = FindId(devices, e.addr)

\* A device none of whose keys is held: its id is not in the id index.
NotRegistered(d) == DevIndex(devices, d.addr) = 0

\* C13: add twice is add once, remove twice is remove once, and remove of a
\* device that is not registered leaves the id index and the name index as they are.
C13_AddRemoveIdempotent ==
  \A d \in RegDevs :
    /\ Added(Added(Registry, d), d) = Added(Registry, d)
    /\ Removed(Removed(Registry, d), d) = Removed(Registry, d)
    /\ NotRegistered(d) => Removed(Registry, d) = Registry

\* A token that is not the sentinel, matches no friendly name (as given or in
\* lower case), and is no address or the address of nothing known.
UnknownToken(tok) ==
  /\ Lower(tok) # S_modem
  /\ tok \notin DOMAIN device_names /\ Lower(tok) \notin DOMAIN device_names
  /\ \/ ~AddressOk(Lower(tok))
     \/ /\ AddressId(Lower(tok)) # ModemAddr
        /\ DevIndex(devices, AddressId(Lower(tok))) = 0

C14_State ==
  last.api = "find" =>
    /\ ~last.raised
    /\ UnknownToken(last.tok) => last.result = FoundNone

C14_Step ==
  last'.api = "find" => devices' = devices /\ device_names' = device_names /\ db' = db

\* C14: find of a token that names nothing gives None and raises nothing, and no
\* call of find changes the id index, the name index or the mirror.
C14_FindUnknownIsNone == []C14_State /\ [][C14_Step]_vars

\* find("zz") and find("d4") with a device registered: None, nothing raised
C14_Witness ==
  /\ last.api = "find" /\ last.tok \in {S_zz, S_d4} /\ UnknownToken(last.tok)
  /\ last.result = FoundNone /\ ~last.raised /\ devices # <<>>

\* No two records of m have the same (address, group, role).
NoDup(m) ==
  \A i, j \in DOMAIN m : SameLink(m[i], m[j].addr, m[j].group, m[j].ctrl) => i = j

\* The record an add call asks the modem to hold.
Wanted(o) ==
  Entry(o.addr, o.group, o.ctrl,
        IF o.data = NoData THEN link_data(o.group, o.ctrl) ELSE o.data)

\* The step in which the modem acknowledges the write of add call i.
AddAcked(i) ==
  /\ i \in DOMAIN ops /\ i \in DOMAIN ops'
  /\ ops[i].kind = "add" /\ ops'[i].kind = "add"
  /\ queue # <<>> /\ Head(queue).op = i /\ Head(queue).typ = "modem_add"
  /\ ops[i].acks = 0 /\ ops'[i].acks = 1

C15_Step ==
  \A i \in 1..MaxOps :
    AddAcked(i) =>
      IF MirrorFind(db, ops[i].addr, ops[i].group, ops[i].ctrl) # NoEntry
      THEN /\ Len(db') = Len(db)
           /\ db' = [db EXCEPT ![DbFind(db, ops[i].addr, ops[i].group, ops[i].ctrl)]
                                  = Wanted(ops[i])]
      ELSE db' = Append(db, Wanted(ops[i]))

\* C15: the mirror never holds two records of the same (address, group, role); an
\* acknowledged add of an identity the mirror holds puts the payload asked for in
\* the place of the old record and leaves the number of records as it was, an
\* acknowledged add of a new identity appends one record.
C15_OneRecordPerIdentity == []NoDup(db) /\ [][C15_Step]_vars

\* the link to "lamp" made earlier is added again with the payload [1, 2, 3]
C15_Witness ==
  /\ Len(ops) = 1 /\ ops[1].kind = "add" /\ ops[1].acks = 1 /\ ~ops[1].tw
  /\ ops[1].data = <<1, 2, 3>> /\ ops[1].addr = KeyOfId(DevLamp.addr) /\ ops[1].ctrl
  /\ devdb[DevLamp] # <<>>
  /\ db = <<Entry(KeyOfId(DevLamp.addr), 1, TRUE, <<1, 2, 3>>)>>

\* C16: after load_db (called by itself or by load_config) with the database file
\* absent, unreadable or corrupt, the mirror is empty and nothing was raised,
\* whatever the mirror held before.  (A load_config with Len(ops) >= 1 is one made
\* after construction: it appends to ops.)
C16_LoadDbBadFileEmptiesMirror ==
  /\ last.api \in {"load_db", "load_config"} => ~last.raised
  /\ last.api = "load_db" /\ last.file \in {"absent", "unreadable", "corrupt"} => db = <<>>
  /\ last.api = "load_config" /\ Len(ops) >= 1
       /\ last.file \in {"absent", "unreadable", "corrupt"} => db = <<>>

\* A two-way delete whose target find did not resolve.
UnresolvedDelete(o) == o.kind = "del" /\ o.tw /\ o.remote.t = "none"

\* The step that is such a call, for a record the mirror holds.
UnresolvedDeleteOfPresent ==
  /\ Len(ops') = Len(ops) + 1
  /\ UnresolvedDelete(ops'[Len(ops')])
  /\ MirrorFind(db, ops'[Len(ops')].addr, ops'[Len(ops')].group, ops'[Len(ops')].ctrl)
       # NoEntry

C17_Call ==
  UnresolvedDeleteOfPresent =>
    /\ ~last'.raised
    /\ ops'[Len(ops')].steps = 1 /\ ops'[Len(ops')].nested = 0
    /\ db' = db /\ hw' = hw /\ devdb' = devdb
    /\ Len(queue') = Len(queue) + 1
    /\ SubSeq(queue', 1, Len(queue)) = queue
    /\ queue'[Len(queue')].typ = "modem_del"
    /\ queue'[Len(queue')].op = Len(ops')
    /\ queue'[Len(queue')].ent =
         MirrorFind(db, ops'[Len(ops')].addr, ops'[Len(ops')].group, ops'[Len(ops')].ctrl)

C17_State ==
  \A i \in DOMAIN ops :
    UnresolvedDelete(ops[i]) /\ ops[i].steps >= 1 =>
      /\ ops[i].steps = 1 /\ ops[i].nested = 0
      /\ \A k \in DOMAIN queue : queue[k].op = i => queue[k].typ = "modem_del"
      /\ ops[i].acks + ops[i].naks = (IF Finished(i) THEN 1 ELSE 0)
      /\ ops[i].cb =>
           /\ ops[i].fired = ops[i].acks + ops[i].naks
           /\ ops[i].fired = 1 => (ops[i].succ <=> ops[i].acks = 1)

\* C17: a two-way delete whose target find does not resolve, for a record the
\* mirror holds, adds exactly one step, the delete on the modem, and runs it;
\* nothing is sent to any other endpoint, and its callback is told once, with the
\* outcome of that delete.
C17_UnresolvedDeleteIsOneWay == []C17_State /\ [][C17_Call]_vars

\* no device is configured; the link to address b2 is deleted two-way by address
C17_Witness ==
  \E i \in DOMAIN ops :
    /\ UnresolvedDelete(ops[i]) /\ ops[i].cb /\ ops[i].steps = 1
    /\ ops[i].fired = 1 /\ ops[i].succ /\ ops[i].acks = 1
    /\ ops[i].addr = KeyOfId(DevLamp.addr) /\ db = <<>> /\ devdb[DevLamp] # <<>>

\* C18: a delete call returns to its caller without raising, also for a record the
\* mirror does not hold and with no callback given.
C18_DeleteNeverRaises ==
  last.api \in {"db_del_ctrl_of", "db_del_resp_of"} => ~last.raised

\* The places in the write queue of the messages of call i.
MsgsOf(q, i) == {k \in DOMAIN q : q[k].op = i}

ToModem(m) == m.typ \in {"modem_add", "modem_del"}

ToDevice(m) == m.typ \in {"dev_add", "dev_del"}

C19_State ==
  \A i \in DOMAIN ops :
    (TwoWayToDevice(ops[i], "add") \/ TwoWayToDevice(ops[i], "del")) =>
      /\ Cardinality(MsgsOf(queue, i)) <= 1
      /\ \A k \in MsgsOf(queue, i) :
           /\ ToModem(queue[k]) => ops[i].acks = 0 /\ ops[i].naks = 0
           /\ ToDevice(queue[k]) => ops[i].acks = 1 /\ ops[i].naks = 0
      /\ ops[i].acks = 0 /\ ops[i].naks >= 1 => MsgsOf(queue, i) = {}

\* The message to the device is submitted in the step in which the modem
\* acknowledges the write of the same call, and in no other.
C19_Step ==
  \A i \in 1..MaxOps :
    (/\ i \in DOMAIN ops'
     /\ \E k \in MsgsOf(queue', i) : ToDevice(queue'[k])
     /\ ~(i \in DOMAIN ops /\ \E k \in MsgsOf(queue, i) : ToDevice(queue[k])))
    => /\ i \in DOMAIN ops /\ queue # <<>>
       /\ Head(queue).op = i /\ ToModem(Head(queue))
       /\ ops[i].acks = 0 /\ ops'[i].acks = 1

\* C19: in a two-way add or delete to a device, no message for the device is in
\* the write queue until the modem has acknowledged the call's write; it is
\* submitted in the step that delivers that acknowledgement; the call never has
\* two messages in the queue; and when the write on the modem fails, no message
\* for the device is ever submitted.
C19_OneStepAtATime == []C19_State /\ [][C19_Step]_vars

\* the modem has acknowledged, the message for the device is in the queue
C19_Witness ==
  \E i \in DOMAIN ops :
    /\ TwoWayToDevice(ops[i], "del") /\ ops[i].acks = 1
    /\ \E k \in MsgsOf(queue, i) : queue[k].typ = "dev_del" /\ queue[k].dev = DevLamp

RefreshKinds == {"refresh", "refresh_all"}

\* The step that is a call of refresh or refresh_all.
RefreshCalled ==
  /\ Len(ops') = Len(ops) + 1
  /\ ops'[Len(ops')].kind \in RefreshKinds

\* The step in which the modem's streaming read of call i reaches the end of the
\* table and signals completion.
RefreshCompletes(i) ==
  /\ i \in DOMAIN ops /\ i \in DOMAIN ops'
  /\ ops[i].kind \in RefreshKinds /\ ops'[i].kind = ops[i].kind
  /\ ops'[i].acks > ops[i].acks

\* Whether two mirrors hold the same records.
SameRecords(m, n) == {m[k] : k \in DOMAIN m} = {n[k] : k \in DOMAIN n}

\* The mirror is empty when the call returns, and the request for the first record
\* is the first message the call submits.
C20_Call ==
  RefreshCalled =>
    /\ db' = <<>>
    /\ Len(queue') > Len(queue)
    /\ queue'[Len(queue) + 1].typ = "get_first"
    /\ queue'[Len(queue) + 1].op = Len(ops')

\* C20 as stated: the mirror is emptied by the call, and at the completion of the
\* streaming read it holds exactly the records of the modem's link table.
C20_RefreshReloadsMirror ==
  [][/\ C20_Call
     /\ \A i \in 1..MaxOps :
          RefreshCompletes(i) => SameRecords(db', hw') /\ NoDup(db')]_vars

\* C20, amended: ... when no other call was in progress when the refresh was
\* called and none was made before its streaming read completed.
C20_RefreshAloneReloadsMirror ==
  [][/\ C20_Call
     /\ \A i \in 1..MaxOps :
          RefreshCompletes(i) /\ Alone(i)' => db' = hw' /\ NoDup(db')]_vars

\* a stale mirror (it held the link to DevFan, the table has two other records)
\* after a refresh that ran alone
C20_Witness ==
  \E i \in DOMAIN ops :
    /\ ops[i].kind = "refresh" /\ ops[i].acks = 1 /\ Alone(i)
    /\ ops[i].cb /\ ops[i].fired = 1 /\ ops[i].succ
    /\ devdb[DevFan] # <<>> /\ Len(hw) = 2 /\ db = hw

LinkKinds == {"add", "del"}

\* C21: the operation on the remote is called with two_way False: a link call adds
\* at most two steps, the call it causes on the remote adds at most one and only
\* when the remote is the modem itself, no device is ever asked for a two-way
\* operation, and the call has at most two writes answered in all.
C21_NoRecursiveChaining ==
  \A i \in DOMAIN ops :
    ops[i].kind \in LinkKinds =>
      /\ ops[i].steps <= 2 /\ ops[i].nested <= 1
      /\ ops[i].nested = 1 => ops[i].tw /\ ops[i].remote.t = "modem"
      /\ ops[i].acks + ops[i].naks <= 2
      /\ \A k \in MsgsOf(queue, i) : queue[k].typ \notin {"dev_add_2w", "dev_del_2w"}
      /\ \A k \in MsgsOf(queue, i) :
           ToModem(queue[k]) /\ ops[i].remote.t = "dev" => ops[i].acks = 0

\* a two-way delete to "lamp", both writes acknowledged, nothing left to send
C21_Witness ==
  \E i \in DOMAIN ops :
    /\ TwoWayToDevice(ops[i], "del") /\ ops[i].steps = 2 /\ ops[i].nested = 0
    /\ ops[i].acks = 2 /\ Finished(i) /\ devdb[DevLamp] = <<>>

\* The step that is a link call.
LinkCalled ==
  /\ Len(ops') = Len(ops) + 1
  /\ ops'[Len(ops')].kind \in LinkKinds

\* The step in which the transport answers (or times out) a write on the modem.
ModemWriteAnswered ==
  /\ queue # <<>> /\ ToModem(Head(queue))
  /\ last'.api = "reply"

\* ... and the answer is an acknowledgement.
ModemWriteAcked ==
  /\ ModemWriteAnswered
  /\ ops'[Head(queue).op].acks > ops[Head(queue).op].acks

C22_Step ==
  /\ LinkCalled => db' = db
  /\ ModemWriteAcked =>
       db' = (IF Head(queue).typ = "modem_add"
              THEN DbAddEntry(db, Head(queue).ent)
              ELSE DbDeleteEntry(db, Head(queue).ent))
  /\ ModemWriteAnswered /\ ~ModemWriteAcked => db' = db
  /\ db' # db => ModemWriteAcked

\* C22: a link call leaves the mirror as it is; the mirror changes only in the step
\* in which the modem acknowledges a write, and then by that write; a negative
\* reply or a timeout leaves it as it is.
C22_MirrorChangesOnAck == [][C22_Step]_vars

\* an add whose write on the modem was refused: the mirror does not hold the record
C22_Witness ==
  /\ Len(ops) = 1 /\ ops[1].kind = "add" /\ ops[1].acks = 0 /\ ops[1].naks = 1
  /\ ops[1].cb /\ ops[1].fired = 1 /\ ~ops[1].succ
  /\ MirrorFind(db, ops[1].addr, ops[1].group, ops[1].ctrl) = NoEntry
  /\ db = hw

\* C23: every device the name index refers to is the device the id index holds
\* under that device's address id.
C23_NameIndexWithinIdIndex ==
  \A n \in DOMAIN device_names :
    /\ DevIndex(devices, device_names[n].addr) # 0
    /\ devices[DevIndex(devices, device_names[n].addr)] = device_names[n]

\* A link call whose target find resolved to the modem itself.
ToItself(o) == o.kind \in LinkKinds /\ o.remote.t = "modem"

\* C24: a link call whose target is the modem itself (the sentinel or the modem's
\* address) adds no second step and sends no second write, and neither the mirror
\* nor the modem's table ever holds a record whose peer is the modem's address.
C24_NoStepToItself ==
  /\ \A i \in DOMAIN ops : ToItself(ops[i]) => ops[i].steps <= 1 /\ ops[i].nested = 0
  /\ \A k \in DOMAIN db : db[k].addr # KeyOfId(ModemAddr)
  /\ \A k \in DOMAIN hw : hw[k].addr # KeyOfId(ModemAddr)

\* The step that is a delete call, and the record it names.
DeleteCalled ==
  /\ Len(ops') = Len(ops) + 1
  /\ ops'[Len(ops')].kind = "del"

HeldBy(m) ==
  MirrorFind(m, ops'[Len(ops')].addr, ops'[Len(ops')].group, ops'[Len(ops')].ctrl) # NoEntry

\* The call was refused at the lookup: no step added, the callback (if any) told so.
Rejected ==
  /\ ops'[Len(ops')].steps = 0
  /\ ops'[Len(ops')].cb =>
       /\ ops'[Len(ops')].fired = 1 /\ ~ops'[Len(ops')].succ
       /\ ops'[Len(ops')].msg = "Entry doesn't exist"

\* The call went on: its delete on the modem is the last message of the queue.
Accepted ==
  /\ ~last'.raised
  /\ ops'[Len(ops')].steps >= 1 /\ ops'[Len(ops')].fired = 0
  /\ Len(queue') = Len(queue) + 1
  /\ queue'[Len(queue')].typ = "modem_del" /\ queue'[Len(queue')].op = Len(ops')

\* C25 as stated: a delete for a record the modem's table holds is not refused,
\* whatever refresh is in flight.  (The mirror starts as the table and the table
\* only loses records: what the table holds, the mirror held.  It is stated for
\* calls that gave a callback; C18 is the call that gave none.)
C25_DeleteDuringRefresh ==
  [][DeleteCalled /\ ops'[Len(ops')].cb /\ HeldBy(hw) => ~Rejected]_vars

\* C25, amended: a delete for a record the mirror holds when the call is made is not
\* refused, a refresh being in flight or not; a delete for a record the mirror does
\* not hold at that moment (a refresh has cleared it and not reloaded the record
\* yet) is refused, though the modem's table holds the record.
C25_DeleteFollowsMirror ==
  [][DeleteCalled => IF HeldBy(db) THEN Accepted ELSE Rejected]_vars

\* a refresh is in flight and has reloaded the record: the delete goes on
C25_Witness ==
  \E i, j \in DOMAIN ops :
    /\ i < j /\ ops[i].kind \in RefreshKinds
    /\ \E k \in MsgsOf(queue, i) : queue[k].typ = "get_next"
    /\ ops[j].kind = "del" /\ ops[j].steps >= 1
    /\ \E k \in MsgsOf(queue, j) : queue[k].typ = "modem_del"

====
